---- MODULE Spec2Model ----
(***************************************************************************)
(* A model of pyeng-primitives: the timestamp normaliser, SchemaValidator, *)
(* WindowBatch and ShardBatch.                                             *)
(*                                                                         *)
(* Python values are records [kind, v, tz, off]:                           *)
(*   int       v is the integer                                            *)
(*   float     v counts halves (the float is v/2), so int() truncates      *)
(*   datetime  v counts half seconds of wall-clock time since              *)
(*             1970-01-01T00:00:00, tz is "naive" or "aware", off is the   *)
(*             utcoffset in seconds of an aware value                      *)
(*   NoneType  None                                                        *)
(*   str       v is the length of the string                               *)
(* A row is [isMap, isDict, items]: items is the insertion-ordered         *)
(* sequence of [k, v] pairs of a mapping; isDict tells a dict from another *)
(* Mapping (a MappingProxyType, say); isMap is FALSE for an element that   *)
(* is no mapping.  An operation returns [status, val]: status is "ok" or   *)
(* the name of the exception raised.                                       *)
(***************************************************************************)
EXTENDS Integers, Sequences, FiniteSets, TLC

VARIABLES wb, sb, res, call, rowObj, listObj, batchObj, held, ev, nmut, fieldLog

vars == <<wb, sb, res, call, rowObj, listObj, batchObj, held, ev, nmut, fieldLog>>

\* the objects of a program that keeps references: see the last specification
heapVars == <<rowObj, listObj, batchObj, held, ev, nmut, fieldLog>>

(***************************************************************************)
(* Bounds of the model.                                                    *)
(***************************************************************************)
\* rows stored in one batch
MaxLen == 2
\* rows handed to one WindowBatch constructor call
MaxWindowIn == 2
\* rows handed to one ShardBatch constructor call
MaxShardIn == 3
\* column names, and the length of a schema or of a row's key sequence
MaxKeys == 3
\* rows handed to one validate_rows call
MaxValidateIn == 3
\* the largest epoch second handed to the normaliser
MaxEpoch == 30
\* row objects (dicts) a program with references can create
MaxRowObjs == 6
\* batch objects such a program can create
MaxBatches == 2
\* rows in the list the caller builds
MaxInput == 2
\* assignments the caller makes to rows and to its list
MaxMutations == 1

Slots == {1, 2}

(***************************************************************************)
(* Python values.                                                          *)
(***************************************************************************)
PyInt(n) == [kind |-> "int", v |-> n, tz |-> "naive", off |-> 0]
PyFloat(halves) == [kind |-> "float", v |-> halves, tz |-> "naive", off |-> 0]
PyNaive(halves) == [kind |-> "datetime", v |-> halves, tz |-> "naive", off |-> 0]
PyAware(halves, off) == [kind |-> "datetime", v |-> halves, tz |-> "aware", off |-> off]
PyNone == [kind |-> "NoneType", v |-> 0, tz |-> "naive", off |-> 0]
PyStr(len) == [kind |-> "str", v |-> len, tz |-> "naive", off |-> 0]

\* int(x) of a quotient n/d: truncation toward zero
Trunc(n, d) == IF n >= 0 THEN n \div d ELSE -((-n) \div d)

\* `not value`
Falsy(value) ==
    \/ value.kind = "NoneType"
    \/ value.kind \in {"int", "float", "str"} /\ value.v = 0

\* value == other, for the values of the model
PyEq(a, b) ==
    IF a.kind \in {"int", "float"} /\ b.kind \in {"int", "float"}
    THEN (IF a.kind = "int" THEN 2 * a.v ELSE a.v)
         = (IF b.kind = "int" THEN 2 * b.v ELSE b.v)
    ELSE a = b

Ok(val) == [status |-> "ok", val |-> val]
\* an exception; reason and idx are what its message names (idx counts from 0)
RaiseAt(exc, reason, idx) == [status |-> exc, val |-> [reason |-> reason, idx |-> idx]]
Raise(exc) == RaiseAt(exc, "", -1)
NoError == [reason |-> "", idx |-> -1]

(***************************************************************************)
(* time_utils.normalise_to_unix_ts                                         *)
(***************************************************************************)
\* faulty variant: an integer is taken for milliseconds
normalise_to_unix_ts_millis(value) ==
    IF Falsy(value) THEN Raise("ValueError")
    ELSE IF value.kind = "int" THEN Ok(PyInt(Trunc(value.v, 1000)))
    ELSE IF value.kind = "float" THEN Ok(PyInt(Trunc(value.v, 2)))
    ELSE IF value.kind = "datetime"
    THEN IF value.tz = "naive"
         THEN Ok(PyInt(Trunc(value.v, 2)))
         ELSE Ok(PyInt(Trunc(value.v - 2 * value.off, 2)))
    ELSE Raise("TypeError")

normalise_to_unix_ts(value) ==
    IF Falsy(value) THEN Raise("ValueError")
    ELSE IF value.kind = "int" THEN Ok(PyInt(value.v))
    ELSE IF value.kind = "float" THEN Ok(PyInt(Trunc(value.v, 2)))
    ELSE IF value.kind = "datetime"
    THEN IF value.tz = "naive"
         THEN Ok(PyInt(Trunc(value.v, 2)))
         ELSE Ok(PyInt(Trunc(value.v - 2 * value.off, 2)))
    ELSE Raise("TypeError")

(***************************************************************************)
(* Rows: dicts with insertion order.                                       *)
(***************************************************************************)
Item(k, v) == [k |-> k, v |-> v]
Dict(items) == [isMap |-> TRUE, isDict |-> TRUE, items |-> items]
\* a Mapping that is not a dict
MappingProxy(items) == [isMap |-> TRUE, isDict |-> FALSE, items |-> items]
NotAMapping == [isMap |-> FALSE, isDict |-> FALSE, items |-> <<>>]

\* tuple(row.keys())
Keys(row) == [i \in 1..Len(row.items) |-> row.items[i].k]

Range(s) == {s[i] : i \in 1..Len(s)}

\* key in row
HasKey(row, k) == k \in Range(Keys(row))

\* row[k], for a key the row has
GetItem(row, k) == row.items[CHOOSE i \in 1..Len(row.items) : row.items[i].k = k].v

\* row.get(k)
Get(row, k) == IF HasKey(row, k) THEN GetItem(row, k) ELSE PyNone

\* row[k] = v: an existing key keeps its position
SetItem(row, k, v) ==
    IF HasKey(row, k)
    THEN [row EXCEPT !.items = [i \in 1..Len(row.items) |->
                                   IF row.items[i].k = k THEN Item(k, v) ELSE row.items[i]]]
    ELSE [row EXCEPT !.items = Append(row.items, Item(k, v))]

\* dict(row)
CopyRow(row) == Dict(row.items)

\* seq[lo:hi] with Python's clamping of negative and oversized indices
SliceIndex(i, n) == IF i < 0 THEN (IF i + n < 0 THEN 0 ELSE i + n)
                    ELSE IF i > n THEN n ELSE i
SliceSeq(s, lo, hi) == SubSeq(s, SliceIndex(lo, Len(s)) + 1, SliceIndex(hi, Len(s)))

(***************************************************************************)
(* schema_validator.SchemaValidator                                        *)
(***************************************************************************)
SchemaValidator___init__(schema, strict_order) ==
    IF schema = <<>> THEN Raise("ValueError")
    ELSE Ok([schema |-> schema, strict_order |-> strict_order])

\* faulty variant: the keys are compared as sets under either policy
validate_row_unordered(self, row) ==
    IF ~row.isMap THEN Raise("TypeError")
    ELSE IF Range(self.schema) # Range(Keys(row)) THEN Raise("ValueError") ELSE Ok(TRUE)

\* faulty variant: without strict order, keys beyond the schema's are let through
validate_row_subset(self, row) ==
    IF ~row.isMap THEN Raise("TypeError")
    ELSE IF self.strict_order
    THEN (IF self.schema # Keys(row) THEN Raise("ValueError") ELSE Ok(TRUE))
    ELSE (IF ~(Range(self.schema) \subseteq Range(Keys(row)))
          THEN Raise("ValueError") ELSE Ok(TRUE))

validate_row(self, row) ==
    IF ~row.isMap THEN Raise("TypeError")
    ELSE IF self.strict_order
    THEN (IF self.schema # Keys(row) THEN Raise("ValueError") ELSE Ok(TRUE))
    ELSE (IF Range(self.schema) # Range(Keys(row)) THEN Raise("ValueError") ELSE Ok(TRUE))

(***************************************************************************)
(* window_batch.WindowBatch                                                *)
(***************************************************************************)
\* a batch object: the fields __init__ sets; _validator is [schema, strict_order]
NoBatch == [none |-> TRUE]

_init_validator(schema, strict_order) ==
    IF "timestamp" \notin Range(schema) THEN Raise("ValueError")
    ELSE SchemaValidator___init__(schema, strict_order)

\* faulty variant: equal bounds pass (> for >=)
_init_window_bounds_gt(window_start, window_end) ==
    IF window_start.kind # window_end.kind THEN Raise("TypeError")
    ELSE LET start_norm == normalise_to_unix_ts(window_start)
             end_norm == normalise_to_unix_ts(window_end)
         IN  IF start_norm.status # "ok" THEN start_norm
             ELSE IF end_norm.status # "ok" THEN end_norm
             ELSE IF start_norm.val.v > end_norm.val.v THEN Raise("ValueError")
             ELSE Ok(<<start_norm.val, end_norm.val>>)

_init_window_bounds(window_start, window_end) ==
    IF window_start.kind # window_end.kind THEN Raise("TypeError")
    ELSE LET start_norm == normalise_to_unix_ts(window_start)
             end_norm == normalise_to_unix_ts(window_end)
         IN  IF start_norm.status # "ok" THEN start_norm
             ELSE IF end_norm.status # "ok" THEN end_norm
             ELSE IF start_norm.val.v >= end_norm.val.v THEN Raise("ValueError")
             ELSE Ok(<<start_norm.val, end_norm.val>>)

\* faulty variant: the window is closed at its end
InWindow_closed(window_start, ts, window_end) == window_start.v <= ts.v /\ ts.v <= window_end.v

\* the window test of one normalised timestamp
InWindow(window_start, ts, window_end) == window_start.v <= ts.v /\ ts.v < window_end.v

\* faulty variant: the copy keeps the timestamp the caller gave
_init_row_unnormalised(validator, window_start, window_end, row) ==
    IF ~row.isMap THEN Raise("TypeError")
    ELSE IF ~HasKey(row, "timestamp") THEN Raise("ValueError")
    ELSE LET ts == normalise_to_unix_ts(GetItem(row, "timestamp"))
         IN  IF ts.status # "ok" THEN ts
             ELSE IF ~InWindow(window_start, ts.val, window_end) THEN Raise("ValueError")
             ELSE LET row_copy == CopyRow(row)
                      checked == validate_row(validator, row_copy)
                  IN  IF checked.status # "ok" THEN checked ELSE Ok(row_copy)

\* the body of the loop of _init_rows for one row
_init_row(validator, window_start, window_end, row) ==
    IF ~row.isMap THEN Raise("TypeError")
    ELSE IF ~HasKey(row, "timestamp") THEN Raise("ValueError")
    ELSE LET ts == normalise_to_unix_ts(GetItem(row, "timestamp"))
         IN  IF ts.status # "ok" THEN ts
             ELSE IF ~InWindow(window_start, ts.val, window_end) THEN Raise("ValueError")
             ELSE LET row_copy == SetItem(CopyRow(row), "timestamp", ts.val)
                      checked == validate_row(validator, row_copy)
                  IN  IF checked.status # "ok" THEN checked ELSE Ok(row_copy)

RECURSIVE _init_rows_loop(_, _, _, _, _)
_init_rows_loop(validator, window_start, window_end, rows, normalised) ==
    IF rows = <<>> THEN Ok(normalised)
    ELSE LET r == _init_row(validator, window_start, window_end, Head(rows))
         IN  IF r.status # "ok" THEN r
             ELSE _init_rows_loop(validator, window_start, window_end, Tail(rows),
                                  Append(normalised, r.val))

\* rows is [iterable, elems]
_init_rows(validator, window_start, window_end, rows) ==
    IF ~rows.iterable THEN Raise("TypeError")
    ELSE _init_rows_loop(validator, window_start, window_end, rows.elems, <<>>)

WindowBatch___init__(rows, window_start, window_end, schema, strict_order) ==
    LET validator == _init_validator(schema, strict_order)
    IN  IF validator.status # "ok" THEN validator
        ELSE LET bounds == _init_window_bounds(window_start, window_end)
             IN  IF bounds.status # "ok" THEN bounds
                 ELSE LET stored == _init_rows(validator.val, bounds.val[1], bounds.val[2], rows)
                      IN  IF stored.status # "ok" THEN stored
                          ELSE Ok([_validator |-> validator.val,
                                   _schema |-> validator.val.schema,
                                   _window_start |-> bounds.val[1],
                                   _window_end |-> bounds.val[2],
                                   _rows |-> stored.val])

Iterable(elems) == [iterable |-> TRUE, elems |-> elems]
NotIterable == [iterable |-> FALSE, elems |-> <<>>]

window_range(self) == <<self._window_start, self._window_end>>

\* batch[lo:hi]
WindowBatch___getitem__(self, lo, hi) ==
    WindowBatch___init__(Iterable(SliceSeq(self._rows, lo, hi)),
                         self._window_start, self._window_end,
                         self._schema, self._validator.strict_order)

\* self + other; other is a WindowBatch or NoBatch (any other object)
WindowBatch___add__(self, other) ==
    IF other = NoBatch THEN Raise("NotImplemented")
    ELSE IF self._schema # other._schema
    THEN RaiseAt("ValueError", "schema mismatch", -1)
    ELSE IF window_range(self) # window_range(other)
    THEN RaiseAt("ValueError", "window_range mismatch", -1)
    ELSE IF self._validator.strict_order # other._validator.strict_order
    THEN RaiseAt("ValueError", "strict_order mismatch", -1)
    ELSE WindowBatch___init__(Iterable(self._rows \o other._rows),
                              self._window_start, self._window_end,
                              self._schema, self._validator.strict_order)

(***************************************************************************)
(* shard_batch.ShardBatch                                                  *)
(***************************************************************************)
\* faulty variant: shard ids compared by identity of representation, not by ==
_check_row_identity(schema, shard_id, row, idx) ==
    IF ~row.isMap THEN Raise("AttributeError")
    ELSE LET schema_each == Keys(row)
             shard_id_each == Get(row, "shard_id")
         IN  IF "shard_id" \notin Range(schema_each)
             THEN RaiseAt("ValueError", "missing shard_id", idx)
             ELSE IF schema_each # schema
             THEN RaiseAt("ValueError", "schema mismatch", idx)
             ELSE IF shard_id_each # shard_id
             THEN RaiseAt("ValueError", "shard_id mismatch", idx)
             ELSE Ok(TRUE)

\* the checks of the validation loop for row idx
_check_row(schema, shard_id, row, idx) ==
    IF ~row.isMap THEN Raise("AttributeError")
    ELSE LET schema_each == Keys(row)
             shard_id_each == Get(row, "shard_id")
         IN  IF "shard_id" \notin Range(schema_each)
             THEN RaiseAt("ValueError", "missing shard_id", idx)
             ELSE IF schema_each # schema
             THEN RaiseAt("ValueError", "schema mismatch", idx)
             ELSE IF ~PyEq(shard_id_each, shard_id)
             THEN RaiseAt("ValueError", "shard_id mismatch", idx)
             ELSE Ok(TRUE)

\* faulty variant: the loop leaves after the row it starts at
_check_rows_first_only(schema, shard_id, rows, idx) ==
    IF idx >= Len(rows) THEN Ok(TRUE)
    ELSE LET r == _check_row(schema, shard_id, rows[idx + 1], idx)
         IN  IF r.status # "ok" THEN r ELSE Ok(TRUE)

\* for idx, row in enumerate(rows), from row idx on
RECURSIVE _check_rows(_, _, _, _)
_check_rows(schema, shard_id, rows, idx) ==
    IF idx >= Len(rows) THEN Ok(TRUE)
    ELSE LET r == _check_row(schema, shard_id, rows[idx + 1], idx)
         IN  IF r.status # "ok" THEN r ELSE _check_rows(schema, shard_id, rows, idx + 1)

\* rows is a list (a sequence of rows)
ShardBatch___init__(rows) ==
    IF rows = <<>>
    THEN Ok([_rows |-> <<>>, _schema |-> <<>>, _shard_id |-> PyNone])
    ELSE IF ~rows[1].isMap THEN Raise("AttributeError")
    ELSE LET schema == Keys(rows[1])
             shard_id == Get(rows[1], "shard_id")
             checked == _check_rows(schema, shard_id, rows, 0)
         IN  IF checked.status # "ok" THEN checked
             ELSE Ok([_rows |-> [i \in 1..Len(rows) |-> CopyRow(rows[i])],
                      _schema |-> schema,
                      _shard_id |-> shard_id])

\* faulty variant: the slice keeps the metadata its own constructor derived
ShardBatch___getitem___derived(self, lo, hi) ==
    ShardBatch___init__(SliceSeq(self._rows, lo, hi))

\* batch[lo:hi]
ShardBatch___getitem__(self, lo, hi) ==
    LET new_batch == ShardBatch___init__(SliceSeq(self._rows, lo, hi))
    IN  IF new_batch.status # "ok" THEN new_batch
        ELSE Ok([new_batch.val EXCEPT !._shard_id = self._shard_id,
                                      !._schema = self._schema])

\* the checks of the loop over a list operand for element idx
_check_other_row(self, row, idx) ==
    IF ~row.isDict THEN RaiseAt("TypeError", "not a dict", idx)
    ELSE IF Keys(row) # self._schema
    THEN RaiseAt("ValueError", "schema mismatch", idx)
    ELSE IF ~PyEq(Get(row, "shard_id"), self._shard_id)
    THEN RaiseAt("ValueError", "shard_id mismatch", idx)
    ELSE Ok(TRUE)

RECURSIVE _check_other_rows(_, _, _)
_check_other_rows(self, other_rows, idx) ==
    IF idx >= Len(other_rows) THEN Ok(TRUE)
    ELSE LET r == _check_other_row(self, other_rows[idx + 1], idx)
         IN  IF r.status # "ok" THEN r ELSE _check_other_rows(self, other_rows, idx + 1)

\* faulty variant: the operands' rows are joined in the other order
ShardBatch___add__batch_reversed(self, other) ==
    IF ~PyEq(self._shard_id, other._shard_id)
    THEN RaiseAt("ValueError", "different shard IDs", -1)
    ELSE IF self._schema # other._schema
    THEN RaiseAt("ValueError", "different schemas", -1)
    ELSE ShardBatch___init__(other._rows \o self._rows)

\* self + other, other a ShardBatch
ShardBatch___add__batch(self, other) ==
    IF ~PyEq(self._shard_id, other._shard_id)
    THEN RaiseAt("ValueError", "different shard IDs", -1)
    ELSE IF self._schema # other._schema
    THEN RaiseAt("ValueError", "different schemas", -1)
    ELSE ShardBatch___init__(self._rows \o other._rows)

\* faulty variant: the elements are not scanned, the constructor sees them first
ShardBatch___add__list_unscanned(self, other_rows) ==
    ShardBatch___init__(self._rows \o other_rows)

\* self + other, other a list or tuple of elements
ShardBatch___add__list(self, other_rows) ==
    LET checked == _check_other_rows(self, other_rows, 0)
    IN  IF checked.status # "ok" THEN checked
        ELSE ShardBatch___init__(self._rows \o other_rows)

\* self + other; other is [type, batch, elems], type "ShardBatch", "list" or any other
ShardBatch___add__(self, other) ==
    IF other.type = "ShardBatch" THEN ShardBatch___add__batch(self, other.batch)
    ELSE IF other.type = "list" THEN ShardBatch___add__list(self, other.elems)
    ELSE Raise("NotImplemented")

(***************************************************************************)
(* The inputs callers hand in.                                             *)
(***************************************************************************)
SeqsUpTo(S, n) == UNION {[1..m -> S] : m \in 0..n}

\* window bounds: 0 (rejected), 1, 3, -0.5 (int() gives 0), 2.5 (gives 2),
\* 1970-01-01T00:00:00 naive (gives 0), 00:00:03+00:00:01 (gives 2)
BoundUniverse ==
    {PyInt(0), PyInt(1), PyInt(3), PyFloat(-1), PyFloat(5), PyNaive(0), PyAware(6, 1)}

\* row timestamps: 0 (rejected), 1, 3, 0.5 (gives 0), 00:00:02 naive (gives 2)
RowTsUniverse == {PyInt(0), PyInt(1), PyInt(3), PyFloat(1), PyNaive(4)}

WRow(ts) == Dict(<<Item("timestamp", ts), Item("x", PyInt(7))>>)
WRowSwapped(ts) == Dict(<<Item("x", PyInt(7)), Item("timestamp", ts)>>)

WindowRowUniverse ==
    {WRow(ts) : ts \in RowTsUniverse} \cup {WRowSwapped(ts) : ts \in RowTsUniverse}
    \cup {Dict(<<Item("x", PyInt(7))>>), NotAMapping}

WindowRowsUniverse ==
    {Iterable(rows) : rows \in SeqsUpTo(WindowRowUniverse, MaxWindowIn)} \cup {NotIterable}

SchemaUniverse == {<<"timestamp", "x">>, <<"x", "timestamp">>, <<"x">>}

(***************************************************************************)
(* Objects.  rowObj maps the address of a dict to its contents, listObj    *)
(* the address of a list or tuple of rows to the addresses it holds,       *)
(* batchObj the identity of a batch to its class and fields, _rows being   *)
(* the address of its list.  List 1 is the list the caller built.          *)
(***************************************************************************)
RowAddrs == 1..MaxRowObjs
\* where the dict that batch[index] creates lives until the caller lets go of it
TempAddr == MaxRowObjs + 1
AllAddrs == RowAddrs \cup {TempAddr}
ListAddrs == 1..(MaxBatches + 1)
BatchIds == 1..MaxBatches

NoRow == [free |-> TRUE]
NoList == [live |-> FALSE, elems |-> <<>>]
ListOf(elems) == [live |-> TRUE, elems |-> elems]
\* the reference the last statement obtained or assigned through
NoHeld == [addr |-> 0, from |-> "none", b |-> 0, index |-> 0]
\* the statement executed last
NoEvent == [op |-> "none", status |-> "ok", b |-> 0]

NoObjects ==
    /\ rowObj = [a \in AllAddrs |-> NoRow]
    /\ listObj = [l \in ListAddrs |-> NoList]
    /\ batchObj = [b \in BatchIds |-> NoBatch]
    /\ held = NoHeld
    /\ ev = NoEvent
    /\ nmut = 0
    /\ fieldLog = {}

(***************************************************************************)
(* One constructor call: call holds the arguments, then the outcome.       *)
(***************************************************************************)
NoCall == [fn |-> "none", state |-> "idle"]
NoRes == [cls |-> "none", op |-> "none", status |-> "ok", err |-> NoError,
          a |-> NoBatch, b |-> NoBatch,
          elems |-> <<>>, lo |-> 0, hi |-> 0, out |-> NoBatch]

\* the arguments of a pending call WindowBatch(rows, ...)
WindowCallOf(rows, window_start, window_end, schema, strict_order) ==
    [fn |-> "WindowBatch", state |-> "pending", rows |-> rows,
     window_start |-> window_start, window_end |-> window_end, schema |-> schema,
     strict_order |-> strict_order, status |-> "ok", err |-> NoError, out |-> NoBatch]

InitWindowCall ==
    /\ wb = [k \in Slots |-> NoBatch]
    /\ sb = [k \in Slots |-> NoBatch]
    /\ res = NoRes
    /\ NoObjects
    /\ \E rows \in WindowRowsUniverse, ws \in BoundUniverse, we \in BoundUniverse,
          schema \in SchemaUniverse, strict \in BOOLEAN :
            call = WindowCallOf(rows, ws, we, schema, strict)

\* WindowBatch(rows, window_start=..., window_end=..., schema=..., strict_order=...)
WindowCall ==
    /\ call.fn = "WindowBatch"
    /\ call.state = "pending"
    /\ LET r == WindowBatch___init__(call.rows, call.window_start, call.window_end,
                                     call.schema, call.strict_order)
       IN  call' = [call EXCEPT !.state = "returned", !.status = r.status,
                                !.err = IF r.status = "ok" THEN NoError ELSE r.val,
                                !.out = IF r.status = "ok" THEN r.val ELSE NoBatch]
    /\ UNCHANGED <<wb, sb, res>>
    /\ UNCHANGED heapVars

NextWindowCall == WindowCall

SpecWindowCall == InitWindowCall /\ [][NextWindowCall]_vars

\* shard ids 1, 2 and 1.0 (equal to 1); a second column with two values
ShardIdUniverse == {PyInt(1), PyInt(2), PyFloat(2)}
ColumnUniverse == {PyInt(10), PyInt(20)}

SRow(id, a) == Dict(<<Item("shard_id", id), Item("a", a)>>)
SRowSwapped(id, a) == Dict(<<Item("a", a), Item("shard_id", id)>>)

ShardRowUniverse ==
    {SRow(id, a) : id \in ShardIdUniverse, a \in ColumnUniverse}
    \cup {SRowSwapped(id, a) : id \in ShardIdUniverse, a \in ColumnUniverse}
    \cup {Dict(<<Item("shard_id", id)>>) : id \in ShardIdUniverse}
    \cup {Dict(<<Item("a", a)>>) : a \in ColumnUniverse}
    \cup {Dict(<<>>)}

\* the arguments of a pending call ShardBatch(rows)
ShardCallOf(rows) ==
    [fn |-> "ShardBatch", state |-> "pending", rows |-> rows,
     status |-> "ok", err |-> NoError, out |-> NoBatch]

InitShardCall ==
    /\ wb = [k \in Slots |-> NoBatch]
    /\ sb = [k \in Slots |-> NoBatch]
    /\ res = NoRes
    /\ NoObjects
    /\ \E rows \in SeqsUpTo(ShardRowUniverse, MaxShardIn) : call = ShardCallOf(rows)

\* ShardBatch(rows)
ShardCall ==
    /\ call.fn = "ShardBatch"
    /\ call.state = "pending"
    /\ LET r == ShardBatch___init__(call.rows)
       IN  call' = [call EXCEPT !.state = "returned", !.status = r.status,
                                !.err = IF r.status = "ok" THEN NoError ELSE r.val,
                                !.out = IF r.status = "ok" THEN r.val ELSE NoBatch]
    /\ UNCHANGED <<wb, sb, res>>
    /\ UNCHANGED heapVars

NextShardCall == ShardCall

SpecShardCall == InitShardCall /\ [][NextShardCall]_vars

(***************************************************************************)
(* One call SchemaValidator(schema, strict_order=...).validate_row(row).    *)
(***************************************************************************)
KeyNames == <<"a", "b", "c", "d", "e">>
ColumnNames == {KeyNames[i] : i \in 1..MaxKeys}

\* the key sequences a mapping can have: no key twice
KeySeqs == {ks \in SeqsUpTo(ColumnNames, MaxKeys) :
               \A i \in 1..Len(ks), j \in 1..Len(ks) : ks[i] = ks[j] => i = j}

ItemsOf(ks) == [i \in 1..Len(ks) |-> Item(ks[i], PyInt(7))]

\* rows: dicts, one other Mapping, and a value that is no mapping
ValidatorRowUniverse ==
    {Dict(ItemsOf(ks)) : ks \in KeySeqs}
    \cup {MappingProxy(ItemsOf(<<"a", "b">>)), NotAMapping}

\* schemas: any tuple of column names, the empty one and repeated names included
ValidatorSchemaUniverse == SeqsUpTo(ColumnNames, MaxKeys)

ValidateRowCallOf(schema, strict_order, row) ==
    [fn |-> "validate_row", state |-> "pending", schema |-> schema,
     strict_order |-> strict_order, row |-> row, built |-> FALSE, status |-> "ok"]

InitValidateRowCall ==
    /\ wb = [k \in Slots |-> NoBatch]
    /\ sb = [k \in Slots |-> NoBatch]
    /\ res = NoRes
    /\ NoObjects
    /\ \E schema \in ValidatorSchemaUniverse, strict \in BOOLEAN,
          row \in ValidatorRowUniverse :
            call = ValidateRowCallOf(schema, strict, row)

\* validator = SchemaValidator(schema, strict_order=...); validator.validate_row(row)
ValidateRowCall ==
    /\ call.fn = "validate_row"
    /\ call.state = "pending"
    /\ LET validator == SchemaValidator___init__(call.schema, call.strict_order)
           r == IF validator.status # "ok" THEN validator
                ELSE validate_row(validator.val, call.row)
       IN  call' = [call EXCEPT !.state = "returned", !.status = r.status,
                                !.built = (validator.status = "ok")]
    /\ UNCHANGED <<wb, sb, res>>
    /\ UNCHANGED heapVars

NextValidateRowCall == ValidateRowCall

SpecValidateRowCall == InitValidateRowCall /\ [][NextValidateRowCall]_vars

(***************************************************************************)
(* One call validator.validate_rows(rows), row by row.  call.i is the      *)
(* position of the for loop, call.validated the indices of the rows that   *)
(* were handed to validate_row so far.                                     *)
(***************************************************************************)
ValidateRowsElementUniverse ==
    {Dict(ItemsOf(<<"a", "b">>)), Dict(ItemsOf(<<"b", "a">>)), Dict(ItemsOf(<<"a">>)),
     NotAMapping}

ValidateRowsUniverse ==
    {Iterable(rows) : rows \in SeqsUpTo(ValidateRowsElementUniverse, MaxValidateIn)}
    \cup {NotIterable}

ValidateRowsCallOf(self, rows) ==
    [fn |-> "validate_rows", state |-> "pending", self |-> self, rows |-> rows,
     i |-> 0, validated |-> <<>>, status |-> "ok"]

InitValidateRows ==
    /\ wb = [k \in Slots |-> NoBatch]
    /\ sb = [k \in Slots |-> NoBatch]
    /\ res = NoRes
    /\ NoObjects
    /\ \E strict \in BOOLEAN, rows \in ValidateRowsUniverse :
          call = ValidateRowsCallOf(SchemaValidator___init__(<<"a", "b">>, strict).val, rows)

\* if not isinstance(rows, Iterable): raise TypeError
ValidateRowsEnter ==
    /\ call.fn = "validate_rows"
    /\ call.state = "pending"
    /\ call' = IF ~call.rows.iterable
               THEN [call EXCEPT !.state = "returned", !.status = "TypeError"]
               ELSE [call EXCEPT !.state = "iterating"]
    /\ UNCHANGED <<wb, sb, res>>
    /\ UNCHANGED heapVars

\* faulty variant: a failure is remembered and the loop goes on
ValidateRowsStep_continue ==
    /\ call.fn = "validate_rows"
    /\ call.state = "iterating"
    /\ call.i < Len(call.rows.elems)
    /\ LET r == validate_row(call.self, call.rows.elems[call.i + 1])
       IN  call' = [call EXCEPT !.validated = Append(@, call.i),
                                !.i = @ + 1,
                                !.status = IF r.status # "ok" THEN r.status ELSE @]
    /\ UNCHANGED <<wb, sb, res>>
    /\ UNCHANGED heapVars

\* one round of the loop: self.validate_row(row) for the next row
ValidateRowsStep ==
    /\ call.fn = "validate_rows"
    /\ call.state = "iterating"
    /\ call.i < Len(call.rows.elems)
    /\ LET r == validate_row(call.self, call.rows.elems[call.i + 1])
       IN  call' = IF r.status # "ok"
                   THEN [call EXCEPT !.validated = Append(@, call.i),
                                     !.state = "returned", !.status = r.status]
                   ELSE [call EXCEPT !.validated = Append(@, call.i), !.i = @ + 1]
    /\ UNCHANGED <<wb, sb, res>>
    /\ UNCHANGED heapVars

\* the loop is exhausted: validate_rows returns None
ValidateRowsReturn ==
    /\ call.fn = "validate_rows"
    /\ call.state = "iterating"
    /\ call.i >= Len(call.rows.elems)
    /\ call' = [call EXCEPT !.state = "returned"]
    /\ UNCHANGED <<wb, sb, res>>
    /\ UNCHANGED heapVars

NextValidateRows == ValidateRowsEnter \/ ValidateRowsStep \/ ValidateRowsReturn

SpecValidateRows == InitValidateRows /\ [][NextValidateRows]_vars

(***************************************************************************)
(* One call normalise_to_unix_ts(value).                                   *)
(***************************************************************************)
\* integers and floats (in halves) around 0, datetimes before and after the
\* epoch, naive and with offsets of -1, 0 and 1 second, None and two strings
NormaliseValueUniverse ==
    {PyInt(n) : n \in (-MaxEpoch)..MaxEpoch}
    \cup {PyFloat(h) : h \in (-MaxEpoch)..MaxEpoch}
    \cup {PyNaive(h) : h \in (-5)..5}
    \cup {PyAware(h, off) : h \in (-5)..5, off \in {-1, 0, 1}}
    \cup {PyNone, PyStr(0), PyStr(3)}

NormaliseCallOf(value) ==
    [fn |-> "normalise_to_unix_ts", state |-> "pending", value |-> value,
     status |-> "ok", out |-> PyNone]

InitNormaliseCall ==
    /\ wb = [k \in Slots |-> NoBatch]
    /\ sb = [k \in Slots |-> NoBatch]
    /\ res = NoRes
    /\ NoObjects
    /\ \E value \in NormaliseValueUniverse : call = NormaliseCallOf(value)

\* normalise_to_unix_ts(value)
NormaliseCall ==
    /\ call.fn = "normalise_to_unix_ts"
    /\ call.state = "pending"
    /\ LET r == normalise_to_unix_ts(call.value)
       IN  call' = [call EXCEPT !.state = "returned", !.status = r.status,
                                !.out = IF r.status = "ok" THEN r.val ELSE PyNone]
    /\ UNCHANGED <<wb, sb, res>>
    /\ UNCHANGED heapVars

NextNormaliseCall == NormaliseCall

SpecNormaliseCall == InitNormaliseCall /\ [][NextNormaliseCall]_vars

(***************************************************************************)
(* A program over WindowBatch objects.  It holds batches in two variables  *)
(* (wb[1], wb[2]); each statement evaluates one operation on them and then *)
(* binds the returned batch to a variable or discards it.  res is the      *)
(* operation being evaluated: its operands (a, b), its arguments and what  *)
(* it returned or raised.                                                  *)
(***************************************************************************)
\* bounds 1, 3; 1970-01-01T00:00:00 naive (0), 00:00:03+00:00:01 (2); -1.5 (-1), 2.5 (2)
ProgramBoundUniverse ==
    {PyInt(1), PyInt(3), PyNaive(0), PyAware(6, 1), PyFloat(-3), PyFloat(5)}
\* timestamps 1, 0.5 (0) and 00:00:02 naive (2)
ProgramTsUniverse == {PyInt(1), PyFloat(1), PyNaive(4)}

ProgramWindowRowUniverse == {WRow(ts) : ts \in ProgramTsUniverse} \cup {NotAMapping}

ProgramWindowRowsUniverse ==
    {Iterable(rows) : rows \in SeqsUpTo(ProgramWindowRowUniverse, MaxLen)}

ProgramSchemaUniverse == {<<"timestamp", "x">>, <<"x", "timestamp">>}

\* the start and stop of a slice
SliceIndices == (-1)..2

Result(cls, op, r, a, b, elems, lo, hi) ==
    [cls |-> cls, op |-> op, status |-> r.status,
     err |-> IF r.status = "ok" THEN NoError ELSE r.val,
     a |-> a, b |-> b, elems |-> elems, lo |-> lo, hi |-> hi,
     out |-> IF r.status = "ok" THEN r.val ELSE NoBatch]

Idle == res = NoRes

InitWindow ==
    /\ wb = [k \in Slots |-> NoBatch]
    /\ sb = [k \in Slots |-> NoBatch]
    /\ res = NoRes
    /\ NoObjects
    /\ call = NoCall

\* WindowBatch(rows, ...), while a variable is still unbound
WNew ==
    /\ Idle
    /\ \E k \in Slots : wb[k] = NoBatch
    /\ \E rows \in ProgramWindowRowsUniverse,
          ws \in ProgramBoundUniverse, we \in ProgramBoundUniverse,
          schema \in ProgramSchemaUniverse, strict \in BOOLEAN :
            res' = Result("WindowBatch", "new", WindowBatch___init__(rows, ws, we, schema, strict),
                          NoBatch, NoBatch, <<>>, 0, 0)
    /\ UNCHANGED <<wb, sb, call>>
    /\ UNCHANGED heapVars

\* wb[i][lo:hi]
WSlice ==
    /\ Idle
    /\ \E i \in Slots :
          /\ wb[i] # NoBatch
          /\ \E lo \in SliceIndices, hi \in SliceIndices :
                res' = Result("WindowBatch", "slice", WindowBatch___getitem__(wb[i], lo, hi),
                              wb[i], NoBatch, <<>>, lo, hi)
    /\ UNCHANGED <<wb, sb, call>>
    /\ UNCHANGED heapVars

\* wb[i] + wb[j]
WAdd ==
    /\ Idle
    /\ \E i \in Slots, j \in Slots :
          /\ wb[i] # NoBatch /\ wb[j] # NoBatch
          /\ Len(wb[i]._rows) + Len(wb[j]._rows) <= MaxLen
          /\ res' = Result("WindowBatch", "add", WindowBatch___add__(wb[i], wb[j]),
                           wb[i], wb[j], <<>>, 0, 0)
    /\ UNCHANGED <<wb, sb, call>>
    /\ UNCHANGED heapVars

\* wb[i].__add__(other) for an other that is no WindowBatch
WAddOther ==
    /\ Idle
    /\ \E i \in Slots :
          /\ wb[i] # NoBatch
          /\ res' = Result("WindowBatch", "addother", WindowBatch___add__(wb[i], NoBatch),
                           wb[i], NoBatch, <<>>, 0, 0)
    /\ UNCHANGED <<wb, sb, call>>
    /\ UNCHANGED heapVars

\* wb[k] = <the batch returned>
WKeep ==
    /\ res.op # "none" /\ res.status = "ok"
    /\ \E k \in Slots : wb' = [wb EXCEPT ![k] = res.out]
    /\ res' = NoRes
    /\ UNCHANGED <<sb, call>>
    /\ UNCHANGED heapVars

\* the result is discarded, the exception handled
Discard ==
    /\ res.op # "none"
    /\ res' = NoRes
    /\ UNCHANGED <<wb, sb, call>>
    /\ UNCHANGED heapVars

NextWindow == WNew \/ WSlice \/ WAdd \/ WAddOther \/ WKeep \/ Discard

SpecWindow == InitWindow /\ [][NextWindow]_vars

(***************************************************************************)
(* A program over ShardBatch objects, held in sb[1] and sb[2].             *)
(***************************************************************************)
ProgramShardRowUniverse ==
    {SRow(id, a) : id \in {PyInt(1), PyInt(2)}, a \in ColumnUniverse}
    \cup {SRow(PyFloat(2), PyInt(10)), SRowSwapped(PyInt(1), PyInt(10)), Dict(<<>>)}

\* the elements of a list operand
ProgramElementUniverse ==
    {SRow(PyInt(1), PyInt(10)), SRow(PyInt(1), PyInt(20)), SRow(PyInt(2), PyInt(10)),
     SRow(PyFloat(2), PyInt(10)), SRowSwapped(PyInt(1), PyInt(10)), Dict(<<>>),
     MappingProxy(SRow(PyInt(1), PyInt(10)).items), NotAMapping}

BatchOperand(batch) == [type |-> "ShardBatch", batch |-> batch, elems |-> <<>>]
ListOperand(elems) == [type |-> "list", batch |-> NoBatch, elems |-> elems]
OtherOperand == [type |-> "str", batch |-> NoBatch, elems |-> <<>>]

InitShard ==
    /\ wb = [k \in Slots |-> NoBatch]
    /\ sb = [k \in Slots |-> NoBatch]
    /\ res = NoRes
    /\ NoObjects
    /\ call = NoCall

\* ShardBatch(rows)
SNew ==
    /\ Idle
    /\ \E rows \in SeqsUpTo(ProgramShardRowUniverse, MaxLen) :
          res' = Result("ShardBatch", "new", ShardBatch___init__(rows), NoBatch, NoBatch, rows, 0, 0)
    /\ UNCHANGED <<wb, sb, call>>
    /\ UNCHANGED heapVars

\* sb[i][lo:hi]
SSlice ==
    /\ Idle
    /\ \E i \in Slots :
          /\ sb[i] # NoBatch
          /\ \E lo \in SliceIndices, hi \in SliceIndices :
                res' = Result("ShardBatch", "slice", ShardBatch___getitem__(sb[i], lo, hi),
                              sb[i], NoBatch, <<>>, lo, hi)
    /\ UNCHANGED <<wb, sb, call>>
    /\ UNCHANGED heapVars

\* sb[i] + sb[j]
SAdd ==
    /\ Idle
    /\ \E i \in Slots, j \in Slots :
          /\ sb[i] # NoBatch /\ sb[j] # NoBatch
          /\ Len(sb[i]._rows) + Len(sb[j]._rows) <= MaxLen
          /\ res' = Result("ShardBatch", "add", ShardBatch___add__(sb[i], BatchOperand(sb[j])),
                           sb[i], sb[j], <<>>, 0, 0)
    /\ UNCHANGED <<wb, sb, call>>
    /\ UNCHANGED heapVars

\* sb[i] + [row, ...]
SAddList ==
    /\ Idle
    /\ \E i \in Slots :
          /\ sb[i] # NoBatch
          /\ \E elems \in SeqsUpTo(ProgramElementUniverse, MaxLen) :
                /\ Len(sb[i]._rows) + Len(elems) <= MaxLen
                /\ res' = Result("ShardBatch", "addlist", ShardBatch___add__(sb[i], ListOperand(elems)),
                                 sb[i], NoBatch, elems, 0, 0)
    /\ UNCHANGED <<wb, sb, call>>
    /\ UNCHANGED heapVars

\* sb[i].__add__(other) for an other that is no ShardBatch, list or tuple
SAddOther ==
    /\ Idle
    /\ \E i \in Slots :
          /\ sb[i] # NoBatch
          /\ res' = Result("ShardBatch", "addother", ShardBatch___add__(sb[i], OtherOperand),
                           sb[i], NoBatch, <<>>, 0, 0)
    /\ UNCHANGED <<wb, sb, call>>
    /\ UNCHANGED heapVars

\* sb[k] = <the batch returned>
SKeep ==
    /\ res.op # "none" /\ res.status = "ok"
    /\ \E k \in Slots : sb' = [sb EXCEPT ![k] = res.out]
    /\ res' = NoRes
    /\ UNCHANGED <<wb, call>>
    /\ UNCHANGED heapVars

NextShard == SNew \/ SSlice \/ SAdd \/ SAddList \/ SAddOther \/ SKeep \/ Discard

SpecShard == InitShard /\ [][NextShard]_vars

(***************************************************************************)
(* A program that keeps references.  The caller builds a list of rows      *)
(* (list 1), constructs batches from it, derives batches by slicing and    *)
(* adding, and assigns through references to rows: its own, those the     *)
(* iterator of a batch hands out, the one batch[index] just returned.      *)
(* The dict batch[index] creates is dropped with the next statement that   *)
(* does not use it; other objects are never freed.                         *)
(***************************************************************************)
LiveRows == {a \in RowAddrs : rowObj[a] # NoRow}
LiveLists == {l \in ListAddrs : listObj[l].live}
LiveBatches == {b \in BatchIds : batchObj[b] # NoBatch}

\* the rows behind a sequence of references
Deref(addrs) == [i \in 1..Len(addrs) |-> rowObj[addrs[i]]]

\* the rows a batch stores, as references
RowsOf(self) == listObj[self._rows].elems

\* a batch with its rows by value, as the operators on values take it
ValueOf(self) ==
    IF self.cls = "ShardBatch"
    THEN [_rows |-> Deref(RowsOf(self)), _schema |-> self._schema,
          _shard_id |-> self._shard_id]
    ELSE [_validator |-> self._validator, _schema |-> self._schema,
          _window_start |-> self._window_start, _window_end |-> self._window_end,
          _rows |-> Deref(RowsOf(self))]

\* the addresses of n objects created now
FreshRows(n) == [i \in 1..n |-> Cardinality(LiveRows) + i]
FreshList == Cardinality(LiveLists) + 1

\* a new list (or tuple) of new dicts with the given contents
Store(vals) ==
    [rowObj |-> [a \in AllAddrs |->
                    IF a \in RowAddrs /\ a > Cardinality(LiveRows)
                       /\ a <= Cardinality(LiveRows) + Len(vals)
                    THEN vals[a - Cardinality(LiveRows)] ELSE rowObj[a]],
     listObj |-> [l \in ListAddrs |->
                    IF l = FreshList THEN ListOf(FreshRows(Len(vals))) ELSE listObj[l]],
     list |-> FreshList]

\* what an operation leaves behind: the objects, the fields of the batch it
\* returns, and the fields it assigned after that batch's constructor returned
Failed(status) ==
    [status |-> status, rowObj |-> rowObj, listObj |-> listObj, f |-> NoBatch,
     written |-> {}]
Built(st, f) ==
    [status |-> "ok", rowObj |-> st.rowObj, listObj |-> st.listObj, f |-> f,
     written |-> {}]

\* faulty variant: the new list holds the caller's dicts themselves
HShardBatch___init___shallow(rows) ==
    LET r == ShardBatch___init__(Deref(rows))
    IN  IF r.status # "ok" THEN Failed(r.status)
        ELSE Built([rowObj |-> rowObj,
                    listObj |-> [listObj EXCEPT ![FreshList] = ListOf(rows)]],
                   [cls |-> "ShardBatch", _rows |-> FreshList,
                    _schema |-> r.val._schema, _shard_id |-> r.val._shard_id])

\* the list (or tuple) of copies a constructor stores when its checks passed
StoreRows(r) == Store(IF r.status = "ok" THEN r.val._rows ELSE <<>>)

\* the end of ShardBatch.__init__: r the outcome of its checks, st the copies
StoreShard(r, st) ==
    IF r.status # "ok" THEN Failed(r.status)
    ELSE Built(st, [cls |-> "ShardBatch", _rows |-> st.list,
                    _schema |-> r.val._schema, _shard_id |-> r.val._shard_id])

\* the rest of ShardBatch.__init__, r the outcome of its checks
EndShardInit(r) == StoreShard(r, StoreRows(r))

\* ShardBatch(rows), rows the references a list holds
HShardBatch___init__(rows) == EndShardInit(ShardBatch___init__(Deref(rows)))

\* faulty variant: the slice is a batch over the parent's own dicts
HShardBatch___getitem___shared(self, lo, hi) ==
    LET new_batch == HShardBatch___init__(SliceSeq(RowsOf(self), lo, hi))
    IN  IF new_batch.status # "ok" THEN new_batch
        ELSE [status |-> "ok", rowObj |-> rowObj,
              listObj |-> [listObj EXCEPT ![FreshList] =
                              ListOf(SliceSeq(RowsOf(self), lo, hi))],
              f |-> [new_batch.f EXCEPT !._shard_id = self._shard_id,
                                        !._schema = self._schema],
              written |-> {"_shard_id", "_schema"}]

\* new_batch._shard_id = self._shard_id; new_batch._schema = self._schema
PreserveMetadata(self, new_batch) ==
    IF new_batch.status # "ok" THEN new_batch
    ELSE [new_batch EXCEPT !.f._shard_id = self._shard_id,
                           !.f._schema = self._schema,
                           !.written = {"_shard_id", "_schema"}]

\* batch[lo:hi]
HShardBatch___getitem__(self, lo, hi) ==
    PreserveMetadata(self, HShardBatch___init__(SliceSeq(RowsOf(self), lo, hi)))

\* faulty variant: self._rows is extended in place and self returned
HShardBatch___add__batch_inplace(self, other) ==
    IF ~PyEq(self._shard_id, other._shard_id) THEN Failed("ValueError")
    ELSE IF self._schema # other._schema THEN Failed("ValueError")
    ELSE LET added == HShardBatch___init__(RowsOf(other))
         IN  IF added.status # "ok" THEN added
             ELSE [status |-> "ok", rowObj |-> added.rowObj,
                   listObj |-> [listObj EXCEPT ![self._rows] =
                                   ListOf(RowsOf(self) \o added.listObj[added.f._rows].elems)],
                   f |-> self, written |-> {}]

\* self + other, other a ShardBatch
HShardBatch___add__batch(self, other) ==
    IF ~PyEq(self._shard_id, other._shard_id) THEN Failed("ValueError")
    ELSE IF self._schema # other._schema THEN Failed("ValueError")
    ELSE HShardBatch___init__(RowsOf(self) \o RowsOf(other))

\* the scan of other's rows comes first, the constructor after it
AfterScan(checked, built) ==
    IF checked.status # "ok" THEN Failed(checked.status) ELSE built

\* self + other, other the address of a list
HShardBatch___add__list(self, other) ==
    AfterScan(_check_other_rows(ValueOf(self), Deref(listObj[other].elems), 0),
              HShardBatch___init__(RowsOf(self) \o listObj[other].elems))

\* batch[index] for an int: the stored dict itself
HShardBatch___getitem__int(self, index) ==
    LET n == Len(RowsOf(self))
        i == IF index < 0 THEN index + n ELSE index
    IN  IF i < 0 \/ i >= n
        THEN [status |-> "IndexError", rowObj |-> rowObj, addr |-> 0]
        ELSE [status |-> "ok", rowObj |-> rowObj, addr |-> RowsOf(self)[i + 1]]

\* the end of WindowBatch.__init__: r the outcome of its checks, st the copies
StoreWindow(r, st) ==
    IF r.status # "ok" THEN Failed(r.status)
    ELSE Built(st, [cls |-> "WindowBatch", _rows |-> st.list,
                    _validator |-> r.val._validator, _schema |-> r.val._schema,
                    _window_start |-> r.val._window_start,
                    _window_end |-> r.val._window_end])

\* the rest of WindowBatch.__init__, r the outcome of its checks
EndWindowInit(r) == StoreWindow(r, StoreRows(r))

\* WindowBatch(rows=rows, ...), rows the references a list holds
HWindowBatch___init__(rows, window_start, window_end, schema, strict_order) ==
    EndWindowInit(WindowBatch___init__(Iterable(Deref(rows)), window_start, window_end,
                                       schema, strict_order))

\* batch[lo:hi]
HWindowBatch___getitem__(self, lo, hi) ==
    HWindowBatch___init__(SliceSeq(RowsOf(self), lo, hi), self._window_start,
                          self._window_end, self._schema, self._validator.strict_order)

\* self + other, other a WindowBatch
HWindowBatch___add__(self, other) ==
    IF self._schema # other._schema THEN Failed("ValueError")
    ELSE IF <<self._window_start, self._window_end>>
            # <<other._window_start, other._window_end>> THEN Failed("ValueError")
    ELSE IF self._validator.strict_order # other._validator.strict_order
    THEN Failed("ValueError")
    ELSE HWindowBatch___init__(RowsOf(self) \o RowsOf(other), self._window_start,
                               self._window_end, self._schema,
                               self._validator.strict_order)

\* faulty variant: the stored dict itself is returned
HWindowBatch___getitem__int_internal(self, key) ==
    LET n == Len(RowsOf(self))
        i == IF key < 0 THEN key + n ELSE key
    IN  IF i < 0 \/ i >= n
        THEN [status |-> "IndexError", rowObj |-> rowObj, addr |-> 0]
        ELSE [status |-> "ok", rowObj |-> rowObj, addr |-> RowsOf(self)[i + 1]]

\* batch[key] for an int: a new dict with the stored row's contents
HWindowBatch___getitem__int(self, key) ==
    LET n == Len(RowsOf(self))
        i == IF key < 0 THEN key + n ELSE key
    IN  IF i < 0 \/ i >= n
        THEN [status |-> "IndexError", rowObj |-> rowObj, addr |-> 0]
        ELSE [status |-> "ok",
              rowObj |-> [rowObj EXCEPT ![TempAddr] = CopyRow(rowObj[RowsOf(self)[i + 1]])],
              addr |-> TempAddr]

\* del row[k]
DelItem(row, k) ==
    LET keep == {i \in 1..Len(row.items) : row.items[i].k # k}
        nth(n) == CHOOSE i \in keep : Cardinality({j \in keep : j < i}) = n - 1
    IN  [row EXCEPT !.items = [n \in 1..Cardinality(keep) |-> row.items[nth(n)]]]

\* what the caller does to a row: row["shard_id"] = 2, row["y"] = 7,
\* del row["timestamp"]
Assignments == {"set", "add", "del"}
Assign(row, how) ==
    IF how = "set" THEN SetItem(row, "shard_id", PyInt(2))
    ELSE IF how = "add" THEN SetItem(row, "y", PyInt(7))
    ELSE DelItem(row, "timestamp")

\* the rows the caller writes: shard 1, timestamps 1.5 and 00:00:02
HRow(ts) == Dict(<<Item("shard_id", PyInt(1)), Item("timestamp", ts)>>)
HeapRowUniverse == {HRow(PyFloat(3)), HRow(PyNaive(4))}

InitHeap ==
    /\ wb = [k \in Slots |-> NoBatch]
    /\ sb = [k \in Slots |-> NoBatch]
    /\ res = NoRes
    /\ call = NoCall
    /\ \E rows \in SeqsUpTo(HeapRowUniverse, MaxInput) :
          /\ rowObj = [a \in AllAddrs |-> IF a <= Len(rows) THEN rows[a] ELSE NoRow]
          /\ listObj = [l \in ListAddrs |->
                          IF l = 1 THEN ListOf([i \in 1..Len(rows) |-> i]) ELSE NoList]
    /\ batchObj = [b \in BatchIds |-> NoBatch]
    /\ held = NoHeld
    /\ ev = NoEvent
    /\ nmut = 0
    /\ fieldLog = {}

\* the dict batch[index] created is let go
Release(h) == [h EXCEPT ![TempAddr] = NoRow]

\* there is room for what the operation creates
Fits(r) ==
    /\ LiveBatches # BatchIds
    /\ r.status = "ok" => \A l \in ListAddrs : \A i \in 1..Len(r.listObj[l].elems) :
                             r.listObj[l].elems[i] \in RowAddrs

\* the operation ends: a batch it returns gets the next identity
Finish(op, r) ==
    LET b == Cardinality(LiveBatches) + 1
    IN  /\ rowObj' = Release(r.rowObj)
        /\ listObj' = r.listObj
        /\ batchObj' = IF r.status = "ok" THEN [batchObj EXCEPT ![b] = r.f] ELSE batchObj
        /\ fieldLog' = fieldLog \cup {[b |-> b, field |-> fld] : fld \in r.written}
        /\ ev' = [op |-> op, status |-> r.status, b |-> IF r.status = "ok" THEN b ELSE 0]
        /\ held' = NoHeld
        /\ UNCHANGED <<wb, sb, res, call, nmut>>

\* a statement that evaluates to r
Statement(op, r) == Fits(r) /\ Finish(op, r)

\* ShardBatch(rows)
HNewShard ==
    /\ LiveBatches # BatchIds
    /\ Statement("new", HShardBatch___init__(listObj[1].elems))

\* WindowBatch(rows=rows, window_start=1, window_end=3, schema=..., strict_order=True)
HNewWindow ==
    /\ LiveBatches # BatchIds
    /\ Statement("new", HWindowBatch___init__(listObj[1].elems, PyInt(1), PyInt(3),
                                              <<"shard_id", "timestamp">>, TRUE))

\* batch[lo:hi]
HSlice ==
    \E a \in LiveBatches, lo \in 0..MaxInput, hi \in 0..MaxInput :
        Statement("slice",
                  IF batchObj[a].cls = "ShardBatch"
                  THEN HShardBatch___getitem__(batchObj[a], lo, hi)
                  ELSE HWindowBatch___getitem__(batchObj[a], lo, hi))

\* a + b for two batches of one class
HAdd ==
    \E a \in LiveBatches, b \in LiveBatches :
        /\ batchObj[a].cls = batchObj[b].cls
        /\ Statement("add",
                     IF batchObj[a].cls = "ShardBatch"
                     THEN HShardBatch___add__batch(batchObj[a], batchObj[b])
                     ELSE HWindowBatch___add__(batchObj[a], batchObj[b]))

\* a + rows for a ShardBatch and the caller's list
HAddList ==
    \E a \in LiveBatches :
        /\ batchObj[a].cls = "ShardBatch"
        /\ Statement("addlist", HShardBatch___add__list(batchObj[a], 1))

\* the caller keeps what batch[index] returned
Hold(b, index, r) ==
    /\ rowObj' = IF r.status = "ok" THEN r.rowObj ELSE Release(rowObj)
    /\ held' = IF r.status = "ok"
               THEN [addr |-> r.addr, from |-> "getitem", b |-> b, index |-> index]
               ELSE NoHeld
    /\ ev' = [op |-> "getitem", status |-> r.status, b |-> b]
    /\ UNCHANGED <<wb, sb, res, call, listObj, batchObj, nmut, fieldLog>>

\* row = batch[index]
HGetItemInt ==
    \E b \in LiveBatches, index \in (-1)..MaxInput :
        Hold(b, index,
             IF batchObj[b].cls = "ShardBatch"
             THEN HShardBatch___getitem__int(batchObj[b], index)
             ELSE HWindowBatch___getitem__int(batchObj[b], index))

\* the references the caller can assign through: rows[i] of its own list, a
\* dict the iterator of a batch hands out (for row in batch), and the row it
\* got from batch[index]
InputRefs == {[addr |-> listObj[1].elems[i], from |-> "input", b |-> 0, index |-> i - 1] :
                 i \in 1..Len(listObj[1].elems)}
IterRefs == UNION {{[addr |-> RowsOf(batchObj[b])[i], from |-> "iter", b |-> b,
                     index |-> i - 1] :
                      i \in 1..Len(RowsOf(batchObj[b]))} : b \in LiveBatches}
Refs == InputRefs \cup IterRefs \cup (IF held.from = "getitem" THEN {held} ELSE {})

\* ref["shard_id"] = 2, ref["y"] = 7 or del ref["timestamp"]
HMutate ==
    /\ nmut < MaxMutations
    /\ \E ref \in Refs, how \in Assignments :
          /\ held' = ref
          /\ rowObj' = IF ref.addr = TempAddr
                       THEN [rowObj EXCEPT ![ref.addr] = Assign(@, how)]
                       ELSE Release([rowObj EXCEPT ![ref.addr] = Assign(@, how)])
          /\ ev' = [op |-> "mutate", status |-> "ok", b |-> ref.b]
    /\ nmut' = nmut + 1
    /\ UNCHANGED <<wb, sb, res, call, listObj, batchObj, fieldLog>>

\* rows.pop() or rows.append(rows[0]) on the caller's list
HMutateList ==
    /\ nmut < MaxMutations
    /\ listObj[1].elems # <<>>
    /\ \/ listObj' = [listObj EXCEPT ![1].elems = SubSeq(@, 1, Len(@) - 1)]
       \/ /\ Len(listObj[1].elems) < MaxInput
          /\ listObj' = [listObj EXCEPT ![1].elems = Append(@, @[1])]
    /\ nmut' = nmut + 1
    /\ ev' = [op |-> "mutate_list", status |-> "ok", b |-> 0]
    /\ rowObj' = Release(rowObj)
    /\ held' = NoHeld
    /\ UNCHANGED <<wb, sb, res, call, batchObj, fieldLog>>

\* len(batch), "y" in batch, batch["y"], repr(batch): they read and assign nothing
HRead ==
    \E b \in LiveBatches, op \in {"len", "contains", "column", "repr"} :
        /\ ev' = [op |-> op,
                  status |-> IF op = "column" /\ "y" \notin Range(batchObj[b]._schema)
                             THEN "KeyError" ELSE "ok",
                  b |-> 0]
        /\ rowObj' = Release(rowObj)
        /\ held' = NoHeld
        /\ UNCHANGED <<wb, sb, res, call, listObj, batchObj, nmut, fieldLog>>

NextHeap ==
    \/ HNewShard \/ HNewWindow \/ HSlice \/ HAdd \/ HAddList
    \/ HGetItemInt \/ HMutate \/ HMutateList \/ HRead

SpecHeap == InitHeap /\ [][NextHeap]_vars

(***************************************************************************)
(* Claims about one constructor call.                                      *)
(***************************************************************************)
Returned(fn) == call.fn = fn /\ call.state = "returned"

\* the epoch second a bound or timestamp stands for, when it has one
Normalises(value) == normalise_to_unix_ts(value).status = "ok"
Norm(value) == normalise_to_unix_ts(value).val.v

SchemaHasTimestamp(schema) == \E i \in 1..Len(schema) : schema[i] = "timestamp"

\* the two kinds of bound the specification names
BoundKind(value) == IF value.kind \in {"int", "float"} THEN "numeric" ELSE value.kind

\* the keys of a row match the schema under the policy
KeysMatch(row, schema, strict) ==
    IF strict THEN Keys(row) = schema
    ELSE {row.items[i].k : i \in 1..Len(row.items)} = {schema[i] : i \in 1..Len(schema)}

\* a call whose schema and bounds are valid and whose rows are mappings that
\* match the schema and carry a timestamp that normalises
WellFormedWindowCall ==
    /\ Returned("WindowBatch")
    /\ SchemaHasTimestamp(call.schema)
    /\ call.window_start.kind = call.window_end.kind
    /\ Normalises(call.window_start) /\ Normalises(call.window_end)
    /\ Norm(call.window_start) < Norm(call.window_end)
    /\ call.rows.iterable
    /\ \A i \in 1..Len(call.rows.elems) :
          LET row == call.rows.elems[i]
          IN  /\ row.isMap
              /\ KeysMatch(row, call.schema, call.strict_order)
              /\ Normalises(GetItem(row, "timestamp"))

\* C4: a well-formed WindowBatch call succeeds iff every row's normalised
\* timestamp ts has window_start <= ts < window_end (ts = window_start is
\* accepted, ts = window_end is not), and it fails with a ValueError otherwise.
C4_HalfOpenWindow ==
    WellFormedWindowCall =>
        LET ws == Norm(call.window_start)
            we == Norm(call.window_end)
            Ts(i) == Norm(GetItem(call.rows.elems[i], "timestamp"))
            AllIn == \A i \in 1..Len(call.rows.elems) : ws <= Ts(i) /\ Ts(i) < we
        IN  /\ AllIn <=> call.status = "ok"
            /\ ~AllIn => call.status = "ValueError" /\ call.out = NoBatch
            /\ AllIn => /\ Len(call.out._rows) = Len(call.rows.elems)
                        /\ \A i \in 1..Len(call.rows.elems) :
                              GetItem(call.out._rows[i], "timestamp") = PyInt(Ts(i))

\* C4 witness: a row at window_start and a row just inside are accepted
C4_Witness ==
    /\ WellFormedWindowCall
    /\ call.status = "ok"
    /\ Len(call.rows.elems) = 2
    /\ Norm(GetItem(call.rows.elems[1], "timestamp")) = Norm(call.window_start)
    /\ Norm(GetItem(call.rows.elems[2], "timestamp")) = Norm(call.window_end) - 1

\* C5 as stated: bounds of different kinds (numeric, datetime) fail with a
\* TypeError; bounds of the same kind fail with a ValueError when normalised
\* window_start >= window_end and pass the bounds check when it is smaller.
C5_AsStated ==
    (/\ Returned("WindowBatch")
     /\ SchemaHasTimestamp(call.schema)
     /\ Normalises(call.window_start) /\ Normalises(call.window_end))
    => LET ws == Norm(call.window_start)
           we == Norm(call.window_end)
           same == BoundKind(call.window_start) = BoundKind(call.window_end)
       IN  /\ ~same => call.status = "TypeError"
           /\ same /\ ws >= we => call.status = "ValueError"
           /\ same /\ ws < we /\ call.rows = Iterable(<<>>) => call.status = "ok"

\* C5 (amended): bounds of different types (int, float and datetime are three
\* types) fail with a TypeError before either is normalised; bounds of one
\* type fail with a ValueError when one of them is falsy or when normalised
\* window_start >= window_end, and pass the bounds check otherwise.
C5_BoundsCheck ==
    (Returned("WindowBatch") /\ SchemaHasTimestamp(call.schema))
    => LET same == call.window_start.kind = call.window_end.kind
           both == Normalises(call.window_start) /\ Normalises(call.window_end)
           ws == Norm(call.window_start)
           we == Norm(call.window_end)
       IN  /\ ~same => call.status = "TypeError"
           /\ same /\ ~both => call.status = "ValueError"
           /\ same /\ both /\ ws >= we => call.status = "ValueError"
           /\ same /\ both /\ ws < we /\ call.rows = Iterable(<<>>) =>
                 /\ call.status = "ok"
                 /\ call.out._window_start = PyInt(ws)
                 /\ call.out._window_end = PyInt(we)

\* C5 witness: equal bounds of one type are rejected
C5_Witness ==
    /\ Returned("WindowBatch")
    /\ SchemaHasTimestamp(call.schema)
    /\ call.window_start = PyInt(3) /\ call.window_end = PyInt(3)
    /\ call.status = "ValueError"

\* C6: ShardBatch(rows) with rows non-empty succeeds iff every row has the key
\* shard_id, the key sequence of the first row and a shard_id equal to the
\* first row's; otherwise it raises a ValueError for the first failing row,
\* naming the first check that row fails (missing shard_id, then schema, then
\* shard id), and yields no batch.  ShardBatch([]) has length 0, schema () and
\* shard id None.
C6_ShardBatchConstruction ==
    Returned("ShardBatch") =>
        LET rows == call.rows
            HasShard(i) == \E j \in 1..Len(rows[i].items) : rows[i].items[j].k = "shard_id"
            SchemaOk(i) == Keys(rows[i]) = Keys(rows[1])
            ShardOk(i) == PyEq(Get(rows[i], "shard_id"), Get(rows[1], "shard_id"))
            Bad == {i \in 1..Len(rows) : ~(HasShard(i) /\ SchemaOk(i) /\ ShardOk(i))}
            first == CHOOSE i \in Bad : \A j \in Bad : i <= j
        IN  IF rows = <<>>
            THEN /\ call.status = "ok"
                 /\ Len(call.out._rows) = 0
                 /\ call.out._schema = <<>>
                 /\ call.out._shard_id = PyNone
            ELSE IF Bad = {}
            THEN /\ call.status = "ok"
                 /\ call.out._rows = rows
                 /\ call.out._schema = Keys(rows[1])
                 /\ call.out._shard_id = Get(rows[1], "shard_id")
            ELSE /\ call.status = "ValueError"
                 /\ call.out = NoBatch
                 /\ call.err.idx = first - 1
                 /\ call.err.reason = IF ~HasShard(first) THEN "missing shard_id"
                                       ELSE IF ~SchemaOk(first) THEN "schema mismatch"
                                       ELSE "shard_id mismatch"

\* C6 witness: the second of three rows has another shard id and the third
\* another schema; the error names the second row
C6_Witness ==
    /\ Returned("ShardBatch")
    /\ Len(call.rows) = 3
    /\ Keys(call.rows[2]) = Keys(call.rows[1])
    /\ ~PyEq(Get(call.rows[2], "shard_id"), Get(call.rows[1], "shard_id"))
    /\ Keys(call.rows[3]) # Keys(call.rows[1])
    /\ call.status = "ValueError"
    /\ call.err = [reason |-> "shard_id mismatch", idx |-> 1]

(***************************************************************************)
(* Claims about the WindowBatch program.                                   *)
(***************************************************************************)
Did(cls, op) == res.cls = cls /\ res.op = op

\* C1 as stated: slicing a WindowBatch never fails and returns a batch over
\* the sliced rows with the parent's window_range, schema and strict_order.
C1_SliceNeverFails ==
    Did("WindowBatch", "slice") =>
        /\ res.status = "ok"
        /\ res.out._rows = SliceSeq(res.a._rows, res.lo, res.hi)
        /\ window_range(res.out) = window_range(res.a)
        /\ res.out._schema = res.a._schema
        /\ res.out._validator.strict_order = res.a._validator.strict_order

\* C2 as stated: a + b raises a ValueError when schema, window range or
\* strict_order differ, and otherwise returns a batch of a's rows followed by
\* b's with the shared window_range, schema and policy.
C2_AddAsStated ==
    Did("WindowBatch", "add") =>
        LET a == res.a
            b == res.b
            differ == \/ a._schema # b._schema
                      \/ window_range(a) # window_range(b)
                      \/ a._validator.strict_order # b._validator.strict_order
        IN  /\ differ => res.status = "ValueError"
            /\ ~differ =>
                  /\ res.status = "ok"
                  /\ Len(res.out._rows) = Len(a._rows) + Len(b._rows)
                  /\ res.out._rows = a._rows \o b._rows
                  /\ window_range(res.out) = window_range(a)
                  /\ res.out._schema = a._schema
                  /\ res.out._validator.strict_order = a._validator.strict_order

\* what C3 says of one batch
WindowBatchInvariant(batch) ==
    /\ batch._window_start.kind = "int"
    /\ batch._window_end.kind = "int"
    /\ batch._window_start.v < batch._window_end.v
    /\ batch._validator.schema = batch._schema
    /\ \A n \in 1..Len(batch._rows) :
          LET row == batch._rows[n]
          IN  /\ row.isMap
              /\ \E j \in 1..Len(row.items) :
                    /\ row.items[j].k = "timestamp"
                    /\ row.items[j].v.kind = "int"
                    /\ batch._window_start.v <= row.items[j].v.v
                    /\ row.items[j].v.v < batch._window_end.v
              /\ KeysMatch(row, batch._schema, batch._validator.strict_order)

WindowBatches == {wb[k] : k \in Slots} \cup {res.a, res.b, res.out}

\* C3: every WindowBatch the program holds or is handed back has integer
\* bounds with window_start < window_end, and every stored row has an integer
\* timestamp inside [window_start, window_end) and keys that match the schema
\* under the batch's strict_order.
C3_WindowBatchInvariant ==
    res.cls \in {"none", "WindowBatch"} =>
        \A batch \in WindowBatches : batch # NoBatch => WindowBatchInvariant(batch)

\* C3 witness: two batches built from calendar and float values were added
C3_Witness ==
    /\ Did("WindowBatch", "add")
    /\ res.status = "ok"
    /\ Len(res.a._rows) = 1 /\ Len(res.b._rows) = 1
    /\ res.a._rows # res.b._rows
    /\ res.out._window_start = PyInt(1)

(***************************************************************************)
(* Claims about the ShardBatch program.                                    *)
(***************************************************************************)
\* C7 as stated: a successful batch + other returns a batch with the
\* receiver's shard id and schema (and the other batch's).
C7_AddKeepsMetadata ==
    (res.cls = "ShardBatch" /\ res.op \in {"add", "addlist"} /\ res.status = "ok") =>
        /\ PyEq(res.out._shard_id, res.a._shard_id)
        /\ res.out._schema = res.a._schema
        /\ res.op = "add" =>
              /\ PyEq(res.out._shard_id, res.b._shard_id)
              /\ res.out._schema = res.b._schema

\* C8: a + b for two ShardBatch objects with equal shard ids and equal schemas
\* returns a batch of len(a) + len(b) rows, a's rows followed by b's; with
\* different shard ids or schemas it raises a ValueError.
C8_AddBatches ==
    Did("ShardBatch", "add") =>
        LET a == res.a
            b == res.b
            same == PyEq(a._shard_id, b._shard_id) /\ a._schema = b._schema
        IN  /\ same => /\ res.status = "ok"
                       /\ Len(res.out._rows) = Len(a._rows) + Len(b._rows)
                       /\ \A n \in 1..Len(a._rows) : res.out._rows[n] = a._rows[n]
                       /\ \A n \in 1..Len(b._rows) :
                             res.out._rows[Len(a._rows) + n] = b._rows[n]
            /\ ~same => res.status = "ValueError" /\ res.out = NoBatch

\* C8 witness: two batches with one row each, the rows different, were added
C8_Witness ==
    /\ Did("ShardBatch", "add")
    /\ res.status = "ok"
    /\ Len(res.a._rows) = 1 /\ Len(res.b._rows) = 1
    /\ res.a._rows # res.b._rows

\* C9: a slice of a ShardBatch is a batch over the sliced rows with the
\* parent's shard id and schema, also when it selects no row.
C9_SliceKeepsMetadata ==
    Did("ShardBatch", "slice") =>
        /\ res.status = "ok"
        /\ res.out._rows = SliceSeq(res.a._rows, res.lo, res.hi)
        /\ res.out._shard_id = res.a._shard_id
        /\ res.out._schema = res.a._schema

\* C9 witness: an empty slice of a batch that has rows
C9_Witness ==
    /\ Did("ShardBatch", "slice")
    /\ res.status = "ok"
    /\ Len(res.a._rows) > 0
    /\ Len(res.out._rows) = 0
    /\ res.out._schema # <<>>

\* what C10 says of one batch
ShardBatchInvariant(batch) ==
    \A n \in 1..Len(batch._rows) :
        LET row == batch._rows[n]
        IN  /\ row.isMap
            /\ Keys(row) = batch._schema
            /\ \E j \in 1..Len(row.items) :
                  /\ row.items[j].k = "shard_id"
                  /\ PyEq(row.items[j].v, batch._shard_id)

ShardBatches == {sb[k] : k \in Slots} \cup {res.a, res.b, res.out}

\* C10: every row stored in a ShardBatch the program holds or is handed back
\* has the key shard_id, the batch's schema as its key sequence and a
\* shard_id equal to the batch's shard id.
C10_ShardBatchInvariant ==
    res.cls \in {"none", "ShardBatch"} =>
        \A batch \in ShardBatches : batch # NoBatch => ShardBatchInvariant(batch)

\* C10 witness: a row was appended to a slice of a batch
C10_Witness ==
    /\ Did("ShardBatch", "addlist")
    /\ res.status = "ok"
    /\ Len(res.a._rows) = 1 /\ Len(res.elems) = 1
    /\ \E k \in Slots : sb[k] # NoBatch /\ Len(sb[k]._rows) = 2

\* the elements of a list operand that the claim's scan rejects, as 1-based positions
Failing(a, elems, isRow(_)) ==
    {n \in 1..Len(elems) :
        \/ ~isRow(elems[n])
        \/ Keys(elems[n]) # a._schema
        \/ ~PyEq(Get(elems[n], "shard_id"), a._shard_id)}

IsMapping(e) == e.isMap
IsDict(e) == e.isDict

Least(S) == CHOOSE n \in S : \A m \in S : n <= m

\* C11 as stated: batch + list scans the elements in order; the first element
\* that is no mapping gives a TypeError, the first row whose keys or shard_id
\* differ from the receiver's gives a ValueError, and if no element fails the
\* result holds the receiver's rows followed by the given rows.
C11_AsStated ==
    Did("ShardBatch", "addlist") =>
        LET a == res.a
            bad == Failing(a, res.elems, IsMapping)
        IN  /\ bad # {} =>
                  /\ res.status = IF ~res.elems[Least(bad)].isMap THEN "TypeError"
                                                                  ELSE "ValueError"
                  /\ res.err.idx = Least(bad) - 1
            /\ bad = {} =>
                  /\ res.status = "ok"
                  /\ res.out._rows = a._rows \o res.elems

\* C11 (amended): batch + list scans the elements in order; the first element
\* that is not a dict (another Mapping included) gives a TypeError naming its
\* index, the first dict whose keys or shard_id differ from the receiver's
\* gives a ValueError naming its index; if no element fails, the combined rows
\* go through the constructor: it raises a ValueError when the first combined
\* row has no shard_id (an empty dict added to the empty batch), and
\* otherwise the result holds the receiver's rows followed by copies of the
\* given rows.
C11_AddList ==
    Did("ShardBatch", "addlist") =>
        LET a == res.a
            bad == Failing(a, res.elems, IsDict)
            combined == a._rows \o res.elems
        IN  /\ bad # {} =>
                  /\ res.status = IF ~res.elems[Least(bad)].isDict THEN "TypeError"
                                                                   ELSE "ValueError"
                  /\ res.err.idx = Least(bad) - 1
                  /\ res.out = NoBatch
            /\ (bad = {} /\ combined # <<>> /\ ~HasKey(combined[1], "shard_id")) =>
                  /\ res.status = "ValueError"
                  /\ res.err = [reason |-> "missing shard_id", idx |-> 0]
                  /\ a._rows = <<>> /\ a._schema = <<>>
            /\ (bad = {} /\ (combined = <<>> \/ HasKey(combined[1], "shard_id"))) =>
                  /\ res.status = "ok"
                  /\ Len(res.out._rows) = Len(a._rows) + Len(res.elems)
                  /\ \A n \in 1..Len(a._rows) : res.out._rows[n] = a._rows[n]
                  /\ \A n \in 1..Len(res.elems) :
                        /\ res.out._rows[Len(a._rows) + n].isDict
                        /\ res.out._rows[Len(a._rows) + n].items = res.elems[n].items

\* C11 witness: the first element passes the scan and the second is rejected
C11_Witness ==
    /\ Did("ShardBatch", "addlist")
    /\ Len(res.elems) = 2
    /\ res.status = "ValueError"
    /\ res.err.idx = 1

(***************************************************************************)
(* Claims about SchemaValidator.                                           *)
(***************************************************************************)
\* the call built a validator for a non-empty schema and validated a mapping
ValidatedMapping(strict) ==
    /\ Returned("validate_row")
    /\ call.strict_order = strict
    /\ call.schema # <<>>
    /\ call.row.isMap

\* C14: with strict_order=True, for a non-empty schema and a mapping row,
\* validate_row succeeds iff the row's key sequence has the schema's length
\* and equals it element by element; otherwise it raises a ValueError.
C14_StrictOrder ==
    ValidatedMapping(TRUE) =>
        LET keys == Keys(call.row)
            equal == /\ Len(keys) = Len(call.schema)
                     /\ \A i \in 1..Len(keys) : keys[i] = call.schema[i]
        IN  /\ call.built
            /\ equal => call.status = "ok"
            /\ ~equal => call.status = "ValueError"

\* C14 witness: the schema's keys in another order are rejected
C14_Witness ==
    /\ ValidatedMapping(TRUE)
    /\ call.schema = <<"a", "b">>
    /\ Keys(call.row) = <<"b", "a">>
    /\ call.status = "ValueError"

\* C15: with strict_order=False, for a non-empty schema and a mapping row,
\* validate_row succeeds iff the set of the row's keys is the set of the
\* schema's names, in any order; a row with a key added or removed raises a
\* ValueError.
C15_AnyOrder ==
    ValidatedMapping(FALSE) =>
        LET keys == Keys(call.row)
            added == \E i \in 1..Len(keys) :
                        \A j \in 1..Len(call.schema) : keys[i] # call.schema[j]
            removed == \E j \in 1..Len(call.schema) :
                          \A i \in 1..Len(keys) : keys[i] # call.schema[j]
        IN  /\ call.built
            /\ (~added /\ ~removed) => call.status = "ok"
            /\ (added \/ removed) => call.status = "ValueError"

\* C15 witness: the schema's keys in another order are accepted
C15_Witness ==
    /\ ValidatedMapping(FALSE)
    /\ call.schema = <<"a", "b", "c">>
    /\ Keys(call.row) = <<"c", "a", "b">>
    /\ call.status = "ok"

\* the 0-based indices of the rows validate_row rejects
Invalid(self, elems) ==
    {n \in 0..(Len(elems) - 1) :
        ~(elems[n + 1].isMap /\ KeysMatch(elems[n + 1], self.schema, self.strict_order))}

\* C16: validate_rows hands the rows to validate_row in input order and stops
\* at the first row that fails: no row after it is validated, the error is
\* that row's (TypeError for a non-mapping, ValueError for a key mismatch), a
\* non-iterable argument raises a TypeError before any row is validated, and
\* the call succeeds iff every row validates.
C16_ValidateRowsInOrder ==
    call.fn = "validate_rows" =>
        LET elems == call.rows.elems
            bad == Invalid(call.self, elems)
        IN  /\ \A n \in 1..Len(call.validated) : call.validated[n] = n - 1
            /\ \A n \in 1..Len(call.validated) :
                  \A m \in bad : call.validated[n] <= m
            /\ ~call.rows.iterable => call.validated = <<>>
            /\ call.state = "returned" =>
                  /\ ~call.rows.iterable => call.status = "TypeError"
                  /\ (call.rows.iterable /\ bad = {}) =>
                        /\ call.status = "ok"
                        /\ Len(call.validated) = Len(elems)
                  /\ (call.rows.iterable /\ bad # {}) =>
                        /\ Len(call.validated) = Least(bad) + 1
                        /\ call.status = IF elems[Least(bad) + 1].isMap
                                         THEN "ValueError" ELSE "TypeError"

\* C16 witness: the second of three rows failed and the third was never validated
C16_Witness ==
    /\ Returned("validate_rows")
    /\ Len(call.rows.elems) = 3
    /\ Invalid(call.self, call.rows.elems) = {1, 2}
    /\ call.validated = <<0, 1>>
    /\ call.status = "ValueError"

(***************************************************************************)
(* Claims about the normaliser.                                            *)
(***************************************************************************)
\* C17 as stated: normalising any integer n returns n, without error.
C17_AsStated ==
    (Returned("normalise_to_unix_ts") /\ call.value.kind = "int") =>
        /\ call.status = "ok"
        /\ call.out = call.value

\* C17 (amended): normalising an integer n other than 0 returns the integer n
\* itself, with no unit conversion and no error; normalising 0 raises a
\* ValueError.
C17_IntRoundTrip ==
    (Returned("normalise_to_unix_ts") /\ call.value.kind = "int") =>
        /\ call.value.v # 0 =>
              /\ call.status = "ok"
              /\ call.out.kind = "int"
              /\ call.out.v = call.value.v
        /\ call.value.v = 0 => call.status = "ValueError"

\* C17 witness: an integer before the epoch came back unchanged
C17_Witness ==
    /\ Returned("normalise_to_unix_ts")
    /\ call.value = PyInt(-MaxEpoch)
    /\ call.status = "ok"
    /\ call.out = PyInt(-MaxEpoch)

(***************************************************************************)
(* Claims about the program that keeps references.                         *)
(***************************************************************************)
\* a batch as the caller can observe it: its rows by value and its metadata
Observed(b) == ValueOf(batchObj[b])

\* the step leaves every batch that exists as it was
BatchesUnchanged ==
    \A b \in LiveBatches :
        /\ batchObj'[b] = batchObj[b]
        /\ listObj'[batchObj[b]._rows] = listObj[batchObj[b]._rows]
        /\ Observed(b)' = Observed(b)

\* the step is an operation of a batch, not an assignment of the caller
OperationStep == ev'.op \notin {"mutate", "mutate_list"}

\* C12 as stated: no operation assigns a field of a batch whose constructor has
\* returned, and every operation leaves the existing batches unchanged.
C12_AsStated ==
    [][/\ OperationStep => BatchesUnchanged
       /\ fieldLog' = {}]_vars

\* C12 (amended): no operation changes a batch the caller already holds: the
\* rows, schema, shard id and window bounds of every existing batch are the
\* same after it, and what slicing and concatenation return is a new
\* instance.  The only fields assigned after a constructor has returned are
\* _shard_id and _schema of the new batch that slicing a ShardBatch is about
\* to return.
C12_NoOperationModifies ==
    [][/\ OperationStep => BatchesUnchanged
       /\ (ev'.op \in {"new", "slice", "add", "addlist"} /\ ev'.status = "ok") =>
             ev'.b \notin LiveBatches
       /\ \A w \in fieldLog' \ fieldLog :
             /\ w.b \notin LiveBatches
             /\ ev'.op = "slice" /\ ev'.b = w.b
             /\ batchObj'[w.b].cls = "ShardBatch"
             /\ w.field \in {"_shard_id", "_schema"}]_vars

\* C12 witness: an empty slice of a ShardBatch that has rows was returned
C12_Witness ==
    /\ ev.op = "slice" /\ ev.status = "ok"
    /\ ev.b = 2
    /\ batchObj[ev.b].cls = "ShardBatch"
    /\ RowsOf(batchObj[ev.b]) = <<>>
    /\ RowsOf(batchObj[1]) # <<>>
    /\ [b |-> ev.b, field |-> "_schema"] \in fieldLog

\* C13: an assignment the caller makes to a row of its own list, and a change
\* of that list, leaves every batch as it was (rows, length, schema, shard id,
\* window range); and constructing a batch leaves the caller's rows and list
\* as they were.
C13_DefensiveCopy ==
    [][/\ ((ev'.op = "mutate" /\ held'.from = "input") \/ ev'.op = "mutate_list") =>
             \A b \in LiveBatches : Observed(b)' = Observed(b)
       /\ ev'.op = "new" =>
             /\ listObj'[1] = listObj[1]
             /\ \A i \in 1..Len(listObj[1].elems) :
                   rowObj'[listObj[1].elems[i]] = rowObj[listObj[1].elems[i]]]_vars

\* C13 witness: the caller assigned to a row of its list after a WindowBatch
\* with a normalised timestamp was built from it
C13_Witness ==
    /\ ev.op = "mutate" /\ held.from = "input"
    /\ \E b \in LiveBatches :
          /\ batchObj[b].cls = "WindowBatch"
          /\ Len(RowsOf(batchObj[b])) = Len(listObj[1].elems)
          /\ RowsOf(batchObj[b]) # <<>>
          /\ GetItem(Observed(b)._rows[1], "timestamp").kind = "int"

\* C18: batch[i] on a WindowBatch, for a valid index i, returns a dict equal
\* to the stored row at i that is none of the stored dicts; an assignment
\* through it leaves every batch as it was, so the batch's rows stay in the
\* window and keep matching the schema.
C18_GetItemCopies ==
    [][/\ (/\ ev'.op = "getitem" /\ ev'.status = "ok"
           /\ batchObj[ev'.b].cls = "WindowBatch") =>
             LET rows == RowsOf(batchObj[ev'.b])
                 i == IF held'.index < 0 THEN held'.index + Len(rows) ELSE held'.index
             IN  /\ rowObj'[held'.addr] = rowObj[rows[i + 1]]
                 /\ \A b \in LiveBatches : held'.addr \notin Range(RowsOf(batchObj[b]))
                 /\ BatchesUnchanged
       /\ (/\ ev'.op = "mutate" /\ held'.from = "getitem"
           /\ batchObj[held'.b].cls = "WindowBatch") =>
             \A b \in LiveBatches :
                 /\ Observed(b)' = Observed(b)
                 /\ (batchObj[b].cls = "WindowBatch" /\ WindowBatchInvariant(Observed(b)))
                       => WindowBatchInvariant(Observed(b))']_vars

\* C18 witness: the caller assigned through the dict wb[i] returned
C18_Witness ==
    /\ ev.op = "mutate" /\ held.from = "getitem"
    /\ batchObj[held.b].cls = "WindowBatch"
    /\ rowObj[held.addr] # Observed(held.b)._rows[1]
    /\ WindowBatchInvariant(Observed(held.b))

\* no dict is stored in two batches, in a batch twice or in a batch and in
\* the caller's list, and no two batches store their rows in one list
NoSharedRows ==
    /\ \A b \in LiveBatches, c \in LiveBatches :
          b # c => /\ batchObj[b]._rows # batchObj[c]._rows
                   /\ Range(RowsOf(batchObj[b])) \cap Range(RowsOf(batchObj[c])) = {}
    /\ \A b \in LiveBatches :
          /\ batchObj[b]._rows # 1
          /\ Range(RowsOf(batchObj[b])) \cap Range(listObj[1].elems) = {}
          /\ \A i \in 1..Len(RowsOf(batchObj[b])), j \in 1..Len(RowsOf(batchObj[b])) :
                RowsOf(batchObj[b])[i] = RowsOf(batchObj[b])[j] => i = j

\* C19: the rows a batch returned by slicing or concatenation stores are new
\* dicts: no dict is stored by two batches, and an assignment through a row
\* that the iterator of one batch handed out leaves every other batch as it
\* was.
C19_NoSharedRows ==
    [][/\ NoSharedRows'
       /\ (ev'.op = "mutate" /\ held'.from \in {"iter", "getitem"}) =>
             \A b \in LiveBatches \ {held'.b} : Observed(b)' = Observed(b)]_vars

\* C19 witness: the caller assigned through a row of a slice of a ShardBatch
C19_Witness ==
    /\ ev.op = "mutate" /\ held.from = "iter"
    /\ held.b = 2
    /\ [b |-> 2, field |-> "_shard_id"] \in fieldLog
    /\ Len(RowsOf(batchObj[1])) = 2

====
